---- MODULE Spec2Model ----
(***************************************************************************)
(* The conversational tool-calling loop of src/4-rag-search/Agent.py:      *)
(* class Agent with its tool registration (__init__), the turn loop        *)
(* (__call__, "Send"), history and reset.                                  *)
(*                                                                         *)
(* Python objects are modelled with reference semantics: user_sessions     *)
(* maps a session id to a reference, heap maps a reference to the session  *)
(* dictionary it denotes, and the local variable s of a running __call__   *)
(* is a reference too (dict.get returns the stored object itself, not a    *)
(* copy).  A call of the Model Service (client.responses.create) is the    *)
(* only blocking point of __call__, so one action runs the code from one   *)
(* such call to the next.                                                  *)
(***************************************************************************)
EXTENDS Integers, Sequences, FiniteSets, TLC

\* ------------------------------------------------------------------------
\* Bounds of the model
\* ------------------------------------------------------------------------
\* __call__ invocations in one behaviour
MaxSends == 2
\* output items in one turn result
MaxItems == 2
\* notes added to the notes service in one behaviour
MaxNotes == 2
\* the largest max_retries _get is called with
MaxRetries == 3

\* ------------------------------------------------------------------------
\* Program constants and the values the inputs are drawn from
\* ------------------------------------------------------------------------
\* mutant: the loop runs once more
MaxRoundsOffByOne == 10 + 1

\* for _ in range(10)
MaxRounds == 10

\* Python's None, and a keyword argument that is not passed at all
None == "None"
Omitted == "NOT_GIVEN"

Procs == {1, 2}
DefaultSession == "default"
SessionIds == {DefaultSession, "u2"}
Messages == {"hi"}
Instruction == "be helpful"
ModelUri == "gpt://folder/yandexgpt/rc"
ToolChoices == {"auto", "required", "none"}

\* Tool declarations handed to the constructor.  kind is the Python type of
\* the declaration: "class" a pydantic BaseModel subclass, "dict" a dict.
\* required are the fields of the class that have no default; impl names
\* the body of its process method.
WeatherTool == [kind |-> "class", name |-> "Weather", doc |-> "Weather in a city", required |-> {"city"}, impl |-> "weather"]
PingTool == [kind |-> "class", name |-> "Ping", doc |-> None, required |-> {}, impl |-> "ping"]
McpTool == [kind |-> "dict", type |-> "mcp", server_label |-> "notes", require_approval |-> "always"]

\* a second class named Weather, with no required field and another body
WeatherFixed == [kind |-> "class", name |-> "Weather", doc |-> "Always sunny", required |-> {}, impl |-> "sunny"]
\* a dict that describes a function (the class docstring lists the type)
FunctionDict == [kind |-> "dict", type |-> "function", name |-> "Lookup", description |-> "Look up", parameters |-> [required |-> {}]]
\* a declaration that is neither a dict nor a BaseModel subclass
PlainClass == [kind |-> "other", name |-> "Helper"]

NoTools == <<>>
SomeTools == <<WeatherTool, McpTool, PingTool>>

\* The constructor's arguments (tools, tool_choice): no tools with a
\* tool_choice asked for, and tools with the default tool_choice
Configs == { <<NoTools, "required">>, <<SomeTools, "auto">> }

\* Argument strings the Model Service may put in a function call
ArgParis == "{\"city\":\"Paris\"}"
ArgAtlantis == "{\"city\":\"Atlantis\"}"
ArgBad == "{bad"
ArgEmpty == ""

EmptyObj == [k \in {} |-> ""]

\* Output items of a turn result (res.output)
FunctionCall(name, arguments, call_id) == [type |-> "function_call", name |-> name, arguments |-> arguments, call_id |-> call_id]
ApprovalRequest(id) == [type |-> "mcp_approval_request", id |-> id]
MessageItem == [type |-> "message"]

Items == { FunctionCall("Weather", ArgParis, "c1"),
           FunctionCall("Weather", ArgBad, "c2"),
           FunctionCall("Weather", ArgEmpty, "c3"),
           FunctionCall("Weather", ArgAtlantis, "c4"),
           FunctionCall("Ping", ArgEmpty, "c5"),
           FunctionCall("Ghost", ArgParis, "c6"),
           ApprovalRequest("a1"),
           ApprovalRequest("a2"),
           MessageItem }

Outputs == UNION { [1..n -> Items] : n \in 0..MaxItems }

\* ------------------------------------------------------------------------
\* Library behaviour used by the loop: json.loads, pydantic, tool bodies
\* ------------------------------------------------------------------------
Ok(v) == [ok |-> TRUE, val |-> v, err |-> ""]
Raise(e) == [ok |-> FALSE, val |-> "", err |-> e]

\* json.loads(call.arguments)
JsonLoads(a) ==
    CASE a = ArgParis -> Ok([city |-> "Paris"])
      [] a = ArgAtlantis -> Ok([city |-> "Atlantis"])
      [] OTHER -> Raise("Expecting property name enclosed in double quotes")

\* fn.model_validate(data), and fn() as fn.model_validate of no data
ModelValidate(fn, data) ==
    IF fn.required \subseteq DOMAIN data
    THEN Ok([impl |-> fn.impl, data |-> data])
    ELSE Raise("1 validation error for " \o fn.name)

\* obj.process(session_id)
Process(obj, session_id) ==
    CASE obj.impl = "weather" ->
            IF obj.data.city = "Paris" THEN Ok("15C") ELSE Raise("unknown city")
      [] obj.impl = "ping" -> Ok("pong")
      [] obj.impl = "sunny" -> Ok("sunny")

\* ------------------------------------------------------------------------
\* Agent.__init__: tool registration
\* ------------------------------------------------------------------------
IsDict(tool) == tool.kind = "dict"
IsModelClass(tool) == tool.kind = "class"

\* the dict appended to self.tools for one declaration
ManifestEntry(tool) ==
    IF IsDict(tool)
    THEN tool
    ELSE [type |-> "function", name |-> tool.name,
          description |-> IF tool.doc = None THEN "" ELSE tool.doc,
          parameters |-> [required |-> tool.required]]

Accepted(ts) == SelectSeq(ts, LAMBDA t : IsDict(t) \/ IsModelClass(t))

\* mutant: the dicts are put before the classes
RegisterToolsDictsFirst(ts) ==
    LET dicts == SelectSeq(ts, IsDict)
        classes == SelectSeq(ts, IsModelClass)
    IN [i \in 1..Len(dicts) |-> ManifestEntry(dicts[i])]
       \o [i \in 1..Len(classes) |-> ManifestEntry(classes[i])]

\* self.tools after the constructor's loop
RegisterTools(ts) == [i \in 1..Len(Accepted(ts)) |-> ManifestEntry(Accepted(ts)[i])]

\* mutant: a class of a name already registered is not registered again
RegisterMapFirstWins(ts) ==
    LET idx(n) == { i \in 1..Len(ts) : IsModelClass(ts[i]) /\ ts[i].name = n }
        first(n) == CHOOSE i \in idx(n) : \A j \in idx(n) : i <= j
        names == { ts[i].name : i \in { j \in 1..Len(ts) : IsModelClass(ts[j]) } }
    IN [n \in names |-> ts[first(n)]]

\* mutant: only the classes that have a docstring are registered
RegisterMapDocumentedOnly(ts) ==
    LET documented(i) == IsModelClass(ts[i]) /\ ts[i].doc # None
        idx(n) == { i \in 1..Len(ts) : documented(i) /\ ts[i].name = n }
        last(n) == CHOOSE i \in idx(n) : \A j \in idx(n) : j <= i
        names == { ts[i].name : i \in { j \in 1..Len(ts) : documented(j) } }
    IN [n \in names |-> ts[last(n)]]

\* self.tool_map after the constructor's loop: a later class of the same
\* name overwrites the earlier one
RegisterMap(ts) ==
    LET idx(n) == { i \in 1..Len(ts) : IsModelClass(ts[i]) /\ ts[i].name = n }
        last(n) == CHOOSE i \in idx(n) : \A j \in idx(n) : j <= i
        names == { ts[i].name : i \in { j \in 1..Len(ts) : IsModelClass(ts[j]) } }
    IN [n \in names |-> ts[last(n)]]

\* ------------------------------------------------------------------------
\* State
\* ------------------------------------------------------------------------
VARIABLES
    tools,          \* self.tools
    tool_map,       \* self.tool_map
    tool_choice,    \* self.tool_choice
    user_sessions,  \* self.user_sessions: session id -> reference
    heap,           \* reference -> session dict {last_reply_id, history}
    pc,             \* per call of __call__: idle, call, wait, returned, raised
    session_id,     \* the session_id argument
    msg,            \* the message argument
    s,              \* the local s (a reference; 0 when unbound)
    res,            \* the local res
    req,            \* the request of the responses.create call in flight
    round,          \* iterations of the for loop begun so far
    ret,            \* the value returned to the caller
    calls,          \* responses.create calls made by this __call__
    replies,        \* turn results received by this __call__
    streak,         \* leading turn results with an actionable item
    pre,            \* the stored session when __call__ was entered
    chain,          \* per session id: the id of the turn result that ended
                    \* its last completed __call__ since creation or reset
    sends,          \* __call__ invocations so far
    decl,           \* the tools argument the constructor was given
    sent,           \* per session id: __call__ invocations on it so far
    wiped,          \* session ids whose session reset deleted, with no
                    \* __call__ invoked on them since
    invoked,        \* per call of __call__: the call_ids of the function
                    \* calls its latest loop iteration dispatched
    events,         \* per call of __call__: what its latest loop iteration
                    \* did, in order: handlers invoked and ended, request made
    NOTES_BY_ID,    \* notes.py: NOTES_BY_ID
    NEXT_ID,        \* notes.py: NEXT_ID
    nres,           \* notes.py: the outcome of the latest tool call
    hist,           \* observation: what the latest Agent.history call returned
    max_retries,    \* _get: its argument max_retries
    attempt,        \* _get: the loop variable
    last_error,     \* _get: last_error
    sleep_for,      \* _get: the seconds of the time.sleep under way
    get_pc,         \* _get: idle (not called), get (at SESSION.get), sleep (in
                    \* time.sleep), returned, raised
    http_calls,     \* observation: SESSION.get calls made by this _get
    seen,           \* observation: what the latest SESSION.get call gave
    outcome         \* observation: what _get returned or raised

vars == <<tools, tool_map, tool_choice, user_sessions, heap, pc, session_id, msg, s,
          res, req, round, ret, calls, replies, streak, pre, chain, sends,
          decl, sent, wiped, invoked, events, NOTES_BY_ID, NEXT_ID, nres, hist,
          max_retries, attempt, last_error, sleep_for, get_pc, http_calls, seen, outcome>>

\* the state of the notes service (src/5-mcp/servers/notes.py)
notes == <<NOTES_BY_ID, NEXT_ID, nres>>

\* the state of a call of _get (src/4-rag-search/Labs/create-openalex-table.py)
openalex == <<max_retries, attempt, last_error, sleep_for, get_pc, http_calls, seen, outcome>>

\* no SESSION.get call has been made yet
NoReply == [kind |-> None, status_code |-> 0, retry_after |-> <<>>, json |-> FALSE]

\* _get has neither returned nor raised
NoOutcome == [kind |-> None, what |-> None]

\* the variables of the agent (src/4-rag-search/Agent.py)
agent == <<tools, tool_map, tool_choice, user_sessions, heap, pc, session_id, msg, s,
           res, req, round, ret, calls, replies, streak, pre, chain, sends,
           decl, sent, wiped, invoked, events, hist>>

\* a call that returned no note
NoNote == [id |-> 0, notebook |-> <<>>, created_at |-> <<>>, title |-> <<>>, body |-> <<>>]

\* no tool of the notes service has been called yet
NoCall == [op |-> None, raised |-> FALSE, note_id |-> 0, deleted |-> FALSE, note |-> NoNote]

config == <<tools, tool_map, tool_choice, decl>>

NoRes == [id |-> None, output |-> <<>>, output_text |-> ""]
NoReq == [model |-> Omitted, store |-> Omitted, tools |-> [tag |-> Omitted, val |-> <<>>], tool_choice |-> Omitted,
          instructions |-> Omitted, previous_response_id |-> Omitted, input |-> Omitted]
\* mutant: a new session starts with an empty string for a reference
NewSessionNoRef == [last_reply_id |-> "", history |-> <<>>]

\* the default of self.user_sessions.get
NewSession == [last_reply_id |-> None, history |-> <<>>]
Absent == [present |-> FALSE, last_reply_id |-> None, history |-> <<>>]

\* the session stored under id, by value
Stored(id) ==
    IF id \in DOMAIN user_sessions
    THEN [present |-> TRUE,
          last_reply_id |-> heap[user_sessions[id]].last_reply_id,
          history |-> heap[user_sessions[id]].history]
    ELSE Absent

\* Agent.history
History(id) == IF id \in DOMAIN user_sessions THEN heap[user_sessions[id]].history ELSE <<>>

Range(f) == { f[x] : x \in DOMAIN f }

\* mutant: the default dict is one object shared by all new sessions
NewRefReuses(h) == IF DOMAIN h = {} THEN 1 ELSE CHOOSE r \in DOMAIN h : TRUE

\* a reference no live object has
NewRef(h) == CHOOSE r \in 1..(Cardinality(DOMAIN h) + 1) : r \notin DOMAIN h

\* reference counting: an object no variable refers to is freed
Collect(h, us, locals) == [r \in (Range(us) \cup locals) \cap DOMAIN h |-> h[r]]

\* the agent after __init__(tools, tool_choice), for the arguments in cs
Constructed(cs) ==
    /\ \E c \in cs :
          /\ decl = c[1]
          /\ tools = RegisterTools(c[1])
          /\ tool_map = RegisterMap(c[1])
          /\ tool_choice = c[2]
    /\ user_sessions = [i \in {} |-> 0]
    /\ heap = [r \in {} |-> NewSession]
    /\ pc = [p \in Procs |-> "idle"]
    /\ session_id = [p \in Procs |-> None]
    /\ msg = [p \in Procs |-> None]
    /\ s = [p \in Procs |-> 0]
    /\ res = [p \in Procs |-> NoRes]
    /\ req = [p \in Procs |-> NoReq]
    /\ round = [p \in Procs |-> 0]
    /\ ret = [p \in Procs |-> NoRes]
    /\ calls = [p \in Procs |-> 0]
    /\ replies = [p \in Procs |-> 0]
    /\ streak = [p \in Procs |-> 0]
    /\ pre = [p \in Procs |-> Absent]
    /\ chain = [id \in SessionIds |-> None]
    /\ sends = 0
    /\ sent = [id \in SessionIds |-> 0]
    /\ wiped = {}
    /\ invoked = [p \in Procs |-> <<>>]
    /\ events = [p \in Procs |-> <<>>]
    /\ NOTES_BY_ID = [i \in {} |-> None]
    /\ NEXT_ID = 1
    /\ nres = NoCall
    /\ hist = <<>>
    /\ max_retries = 0
    /\ attempt = 0
    /\ last_error = None
    /\ sleep_for = 0
    /\ get_pc = "idle"
    /\ http_calls = 0
    /\ seen = NoReply
    /\ outcome = NoOutcome

Init == Constructed(Configs)


\* ------------------------------------------------------------------------
\* Agent.__call__: the requests
\* ------------------------------------------------------------------------
\* a non-string keyword argument: a value, None, or not passed
Some(x) == [tag |-> "value", val |-> x]
NoneVal == [tag |-> None, val |-> <<>>]

\* mutant: tool_choice passed whether or not there are tools
FirstRequestAlwaysPolicy(message, last_reply_id) ==
    [model |-> ModelUri,
     store |-> "True",
     tools |-> IF tools # <<>> THEN Some(tools) ELSE NoneVal,
     tool_choice |-> tool_choice,
     instructions |-> Instruction,
     previous_response_id |-> last_reply_id,
     input |-> message]

\* the first responses.create call
FirstRequest(message, last_reply_id) ==
    [model |-> ModelUri,
     store |-> "True",
     tools |-> IF tools # <<>> THEN Some(tools) ELSE NoneVal,
     tool_choice |-> IF tools # <<>> THEN tool_choice ELSE None,
     instructions |-> Instruction,
     previous_response_id |-> last_reply_id,
     input |-> message]

\* mutant: previous_response_id forgotten
ToolOutputsRequestUnchained(out, res_id) ==
    [model |-> ModelUri,
     store |-> "True",
     tools |-> Some(tools),
     tool_choice |-> Omitted,
     instructions |-> Omitted,
     previous_response_id |-> Omitted,
     input |-> out]

\* the responses.create call that carries the tool outputs
ToolOutputsRequest(out, res_id) ==
    [model |-> ModelUri,
     store |-> "True",
     tools |-> Some(tools),
     tool_choice |-> Omitted,
     instructions |-> Omitted,
     previous_response_id |-> res_id,
     input |-> out]

\* mutant: the approvals call repeats the instructions and the policy
ApprovalsRequestWithInstructions(approvals, res_id) ==
    [model |-> ModelUri,
     store |-> Omitted,
     tools |-> Some(tools),
     tool_choice |-> tool_choice,
     instructions |-> Instruction,
     previous_response_id |-> res_id,
     input |-> approvals]

\* the responses.create call that carries the approvals
ApprovalsRequest(approvals, res_id) ==
    [model |-> ModelUri,
     store |-> Omitted,
     tools |-> Some(tools),
     tool_choice |-> Omitted,
     instructions |-> Omitted,
     previous_response_id |-> res_id,
     input |-> approvals]

\* ------------------------------------------------------------------------
\* The Model Service: a turn result for a request.  Its id is a token that
\* differs from the one the request continues; its text names the turn.
\* ------------------------------------------------------------------------
NextId(prev) ==
    CASE prev = "resp_1" -> "resp_2"
      [] prev = "resp_2" -> "resp_3"
      [] OTHER -> "resp_1"

Response(request, output) ==
    LET id == NextId(request.previous_response_id)
    IN [id |-> id, output |-> output, output_text |-> "answer " \o id]

\* ------------------------------------------------------------------------
\* Agent.__call__: one iteration of the loop
\* ------------------------------------------------------------------------
IsFunctionCall(item) == item.type = "function_call"
IsApprovalRequest(item) == item.type = "mcp_approval_request"

\* tool_calls
ToolCalls(r) == SelectSeq(r.output, IsFunctionCall)

\* mutant: no membership test before the dispatch
IsLocalAlways(call) == TRUE

\* if call.name in self.tool_map
IsLocal(call) == call.name \in DOMAIN tool_map

LocalCalls(r) == SelectSeq(ToolCalls(r), IsLocal)

\* mutant: the arguments are parsed whatever they are
HasArgumentsAlways(call) == TRUE

\* if call.arguments: an absent (None) or empty string is false
HasArguments(call) == call.arguments \notin {"", None}

\* the body of the try statement
RunTool(call, sid) ==
    IF call.name \notin DOMAIN tool_map
    THEN Raise("KeyError " \o call.name)
    ELSE LET fn == tool_map[call.name]
             obj == IF HasArguments(call)
                    THEN LET data == JsonLoads(call.arguments)
                         IN IF data.ok THEN ModelValidate(fn, data.val) ELSE data
                    ELSE ModelValidate(fn, EmptyObj)
         IN IF obj.ok THEN Process(obj.val, sid) ELSE obj

\* f"Ошибка: {e}" (transliterated: the module is ASCII)
ErrText(e) == "Oshibka: " \o e

\* mutant: no except clause
TryDispatchNoExcept(call, sid) ==
    LET r == RunTool(call, sid)
    IN [raised |-> ~r.ok, result |-> IF r.ok THEN r.val ELSE r.err]

\* try ... except Exception as e: what result is bound to, and whether an
\* exception leaves the statement
TryDispatch(call, sid) ==
    LET r == RunTool(call, sid)
    IN [raised |-> FALSE, result |-> IF r.ok THEN r.val ELSE ErrText(r.err)]

\* the dispatch of every local call of the turn result, in order
Dispatched(r, sid) ==
    LET local == LocalCalls(r)
    IN [i \in 1..Len(local) |-> [call |-> local[i], try |-> TryDispatch(local[i], sid)]]

\* the call_ids of the calls dispatched
CallIds(d) == [i \in 1..Len(d) |-> d[i].call.call_id]

\* what the loop over tool_calls does with a local call: the handler is
\* invoked (its arguments parsed or not), then it has returned or failed
InvokeEvent(call) == [ev |-> "invoke", call_id |-> call.call_id, parsed |-> HasArguments(call)]
EndEvent(call, sid) ==
    [ev |-> IF RunTool(call, sid).ok THEN "returned" ELSE "failed",
     call_id |-> call.call_id, parsed |-> HasArguments(call)]

\* the responses.create call that follows the loop over tool_calls
CreateEvent == [ev |-> "create", call_id |-> None, parsed |-> FALSE]

\* mutant: the handlers are all started, then all awaited
DispatchLogConcurrent(r, sid) ==
    LET local == LocalCalls(r)
        n == Len(local)
    IN [k \in 1..(2 * n) |->
          IF k <= n THEN InvokeEvent(local[k]) ELSE EndEvent(local[k - n], sid)]

\* the loop over tool_calls, as a sequence of events: one handler after
\* the other, in the order of tool_calls
DispatchLog(r, sid) ==
    LET local == LocalCalls(r)
    IN [k \in 1..(2 * Len(local)) |->
          LET call == local[(k + 1) \div 2]
          IN IF k % 2 = 1 THEN InvokeEvent(call) ELSE EndEvent(call, sid)]

\* an exception left the try statement of some call
Escaped(r, sid) ==
    LET d == Dispatched(r, sid)
    IN \E i \in 1..Len(d) : d[i].try.raised

\* mutant: an output entry is made for every function call
LocalOutputsForAllCalls(r, sid) ==
    [i \in 1..Len(ToolCalls(r)) |->
        [type |-> "function_call_output",
         call_id |-> ToolCalls(r)[i].call_id,
         output |-> TryDispatch(ToolCalls(r)[i], sid).result]]

\* out
LocalOutputs(r, sid) ==
    LET d == Dispatched(r, sid)
    IN [i \in 1..Len(d) |->
          [type |-> "function_call_output",
           call_id |-> d[i].call.call_id,
           output |-> d[i].try.result]]

\* mcp_approve
McpApprove(r) == SelectSeq(r.output, IsApprovalRequest)

\* mutant: only the first approval request is answered
ApprovalInputFirstOnly(r) ==
    [i \in 1..1 |->
        [type |-> "mcp_approval_response",
         approve |-> TRUE,
         approval_request_id |-> McpApprove(r)[i].id]]

ApprovalInput(r) ==
    [i \in 1..Len(McpApprove(r)) |->
        [type |-> "mcp_approval_response",
         approve |-> TRUE,
         approval_request_id |-> McpApprove(r)[i].id]]

\* mutant: "if out" forgotten
HasToolOutputsAnyCall(r) == ToolCalls(r) # <<>>

\* if tool_calls: ... if out:
HasToolOutputs(r) == ToolCalls(r) # <<>> /\ LocalCalls(r) # <<>>

\* mutant: approval requests are looked at before the local calls
ClassifyApprovalsFirst(r) ==
    IF McpApprove(r) # <<>> THEN "approvals"
    ELSE IF HasToolOutputs(r) THEN "tool_outputs"
    ELSE "break"

\* the branch one loop iteration takes: local calls first, then approval
\* requests, else break
Classify(r) ==
    IF HasToolOutputs(r) THEN "tool_outputs"
    ELSE IF McpApprove(r) # <<>> THEN "approvals"
    ELSE "break"

\* the turn result has an item the loop acts on (the words of the spec:
\* a function call with a dispatchable name, or an approval request)
Actionable(output) ==
    \E i \in 1..Len(output) :
        \/ output[i].type = "function_call" /\ output[i].name \in DOMAIN tool_map
        \/ output[i].type = "mcp_approval_request"

\* ------------------------------------------------------------------------
\* Actions
\* ------------------------------------------------------------------------
Live(p) == { s[q] : q \in { x \in Procs : x # p /\ pc[x] # "idle" } }

\* mutant: __call__ works on a copy of the stored session
SendCopies(p, message, id) ==
    /\ pc[p] = "idle"
    /\ sends < MaxSends
    /\ LET fresh == id \notin DOMAIN user_sessions
           r == NewRef(heap)
           h0 == [x \in DOMAIN heap \cup {r} |->
                     IF x \in DOMAIN heap THEN heap[x]
                     ELSE IF fresh THEN NewSession ELSE heap[user_sessions[id]]]
           h1 == [h0 EXCEPT ![r].history = Append(@, [role |-> "user", content |-> message])]
       IN /\ heap' = h1
          /\ s' = [s EXCEPT ![p] = r]
          /\ req' = [req EXCEPT ![p] = FirstRequest(message, h1[r].last_reply_id)]
    /\ pc' = [pc EXCEPT ![p] = "call"]
    /\ session_id' = [session_id EXCEPT ![p] = id]
    /\ msg' = [msg EXCEPT ![p] = message]
    /\ res' = [res EXCEPT ![p] = NoRes]
    /\ ret' = [ret EXCEPT ![p] = NoRes]
    /\ round' = [round EXCEPT ![p] = 0]
    /\ calls' = [calls EXCEPT ![p] = 1]
    /\ replies' = [replies EXCEPT ![p] = 0]
    /\ streak' = [streak EXCEPT ![p] = 0]
    /\ pre' = [pre EXCEPT ![p] = Stored(id)]
    /\ sends' = sends + 1
    /\ sent' = [sent EXCEPT ![id] = @ + 1]
    /\ wiped' = wiped \ {id}
    /\ invoked' = [invoked EXCEPT ![p] = <<>>]
    /\ events' = [events EXCEPT ![p] = <<>>]
    /\ UNCHANGED <<config, notes, openalex, hist, user_sessions, chain>>

\* __call__ up to and including the first responses.create
Send(p, message, id) ==
    /\ pc[p] = "idle"
    /\ sends < MaxSends
    /\ LET fresh == id \notin DOMAIN user_sessions
           r == IF fresh THEN NewRef(heap) ELSE user_sessions[id]
           h0 == [x \in DOMAIN heap \cup {r} |-> IF x \in DOMAIN heap THEN heap[x] ELSE NewSession]
           h1 == [h0 EXCEPT ![r].history = Append(@, [role |-> "user", content |-> message])]
       IN /\ heap' = h1
          /\ s' = [s EXCEPT ![p] = r]
          /\ req' = [req EXCEPT ![p] = FirstRequest(message, h1[r].last_reply_id)]
    /\ pc' = [pc EXCEPT ![p] = "call"]
    /\ session_id' = [session_id EXCEPT ![p] = id]
    /\ msg' = [msg EXCEPT ![p] = message]
    /\ res' = [res EXCEPT ![p] = NoRes]
    /\ ret' = [ret EXCEPT ![p] = NoRes]
    /\ round' = [round EXCEPT ![p] = 0]
    /\ calls' = [calls EXCEPT ![p] = 1]
    /\ replies' = [replies EXCEPT ![p] = 0]
    /\ streak' = [streak EXCEPT ![p] = 0]
    /\ pre' = [pre EXCEPT ![p] = Stored(id)]
    /\ sends' = sends + 1
    /\ sent' = [sent EXCEPT ![id] = @ + 1]
    /\ wiped' = wiped \ {id}
    /\ invoked' = [invoked EXCEPT ![p] = <<>>]
    /\ events' = [events EXCEPT ![p] = <<>>]
    /\ UNCHANGED <<config, notes, openalex, hist, user_sessions, chain>>

\* observation only (no code reads it): the turn results received, how
\* many, and how many leading ones had an actionable item
Received(p, output) ==
    /\ replies' = [replies EXCEPT ![p] = @ + 1]
    /\ streak' = [streak EXCEPT ![p] = IF @ = replies[p] /\ Actionable(output) THEN @ + 1 ELSE @]

\* what the Model Service keeps of a request it is serving: the turn it
\* continues
Pending(request) == [NoReq EXCEPT !.previous_response_id = request.previous_response_id]

\* the request reaches the Model Service; __call__ blocks in responses.create
\* (res is not read again before it is assigned)
Deliver(p) ==
    /\ pc[p] = "call"
    /\ pc' = [pc EXCEPT ![p] = "wait"]
    /\ req' = [req EXCEPT ![p] = Pending(@)]
    /\ res' = [res EXCEPT ![p] = NoRes]
    /\ invoked' = [invoked EXCEPT ![p] = <<>>]
    /\ events' = [events EXCEPT ![p] = <<>>]
    /\ UNCHANGED <<config, notes, openalex, hist, user_sessions, heap, session_id, msg, s, round, ret,
                   calls, replies, streak, pre, chain, sends, sent, wiped>>

\* mutant: a failed responses.create call is made again
ReplyFailRetries(p) ==
    /\ pc[p] = "wait"
    /\ pc' = [pc EXCEPT ![p] = "call"]
    /\ calls' = [calls EXCEPT ![p] = @ + 1]
    /\ invoked' = [invoked EXCEPT ![p] = <<>>]
    /\ events' = [events EXCEPT ![p] = <<>>]
    /\ UNCHANGED <<config, notes, openalex, hist, user_sessions, heap, session_id, msg, s, res, req, round, ret,
                   replies, streak, pre, chain, sends, sent, wiped>>

\* responses.create raises: the exception leaves __call__
ReplyFail(p) ==
    /\ pc[p] = "wait"
    /\ pc' = [pc EXCEPT ![p] = "raised"]
    /\ res' = [res EXCEPT ![p] = NoRes]
    /\ req' = [req EXCEPT ![p] = NoReq]
    /\ invoked' = [invoked EXCEPT ![p] = <<>>]
    /\ events' = [events EXCEPT ![p] = <<>>]
    /\ UNCHANGED <<config, notes, openalex, hist, user_sessions, heap, session_id, msg, s, round, ret,
                   calls, replies, streak, pre, chain, sends, sent, wiped>>

\* a loop iteration that has local calls: they are dispatched and their
\* outputs sent in the next responses.create call
DispatchLocal(p, r) ==
    /\ IF Escaped(r, session_id[p])
       THEN /\ pc' = [pc EXCEPT ![p] = "raised"]
            /\ res' = [res EXCEPT ![p] = NoRes]
            /\ req' = [req EXCEPT ![p] = NoReq]
            /\ UNCHANGED <<round, calls>>
       ELSE /\ res' = [res EXCEPT ![p] = r]
            /\ req' = [req EXCEPT ![p] = ToolOutputsRequest(LocalOutputs(r, session_id[p]), r.id)]
            /\ round' = [round EXCEPT ![p] = @ + 1]
            /\ calls' = [calls EXCEPT ![p] = @ + 1]
            /\ pc' = [pc EXCEPT ![p] = "call"]
    /\ invoked' = [invoked EXCEPT ![p] = CallIds(Dispatched(r, session_id[p]))]
    /\ events' = [events EXCEPT ![p] =
                     IF Escaped(r, session_id[p])
                     THEN DispatchLog(r, session_id[p])
                     ELSE DispatchLog(r, session_id[p]) \o <<CreateEvent>>]
    /\ UNCHANGED <<user_sessions, heap, ret, chain, wiped>>

\* mutant: the text of the turn is appended to the history before the
\* approvals are sent
ApproveLogsTurn(p, r) ==
    /\ res' = [res EXCEPT ![p] = r]
    /\ req' = [req EXCEPT ![p] = ApprovalsRequest(ApprovalInput(r), r.id)]
    /\ round' = [round EXCEPT ![p] = @ + 1]
    /\ calls' = [calls EXCEPT ![p] = @ + 1]
    /\ pc' = [pc EXCEPT ![p] = "call"]
    /\ invoked' = [invoked EXCEPT ![p] = <<>>]
    /\ events' = [events EXCEPT ![p] = <<>>]
    /\ heap' = [heap EXCEPT ![s[p]].history = Append(@, [role |-> "assistant", content |-> r.output_text])]
    /\ UNCHANGED <<user_sessions, ret, chain, wiped>>

\* mutant: the continuation reference is saved at each approval
ApproveSavesRef(p, r) ==
    /\ res' = [res EXCEPT ![p] = r]
    /\ req' = [req EXCEPT ![p] = ApprovalsRequest(ApprovalInput(r), r.id)]
    /\ round' = [round EXCEPT ![p] = @ + 1]
    /\ calls' = [calls EXCEPT ![p] = @ + 1]
    /\ pc' = [pc EXCEPT ![p] = "call"]
    /\ invoked' = [invoked EXCEPT ![p] = <<>>]
    /\ events' = [events EXCEPT ![p] = <<>>]
    /\ heap' = [heap EXCEPT ![s[p]].last_reply_id = r.id]
    /\ UNCHANGED <<user_sessions, ret, chain, wiped>>

\* a loop iteration that has approval requests: all are approved in the
\* next responses.create call
Approve(p, r) ==
    /\ res' = [res EXCEPT ![p] = r]
    /\ req' = [req EXCEPT ![p] = ApprovalsRequest(ApprovalInput(r), r.id)]
    /\ round' = [round EXCEPT ![p] = @ + 1]
    /\ calls' = [calls EXCEPT ![p] = @ + 1]
    /\ pc' = [pc EXCEPT ![p] = "call"]
    /\ invoked' = [invoked EXCEPT ![p] = <<>>]
    /\ events' = [events EXCEPT ![p] = <<>>]
    /\ UNCHANGED <<user_sessions, heap, ret, chain, wiped>>

\* mutant: last_reply_id not updated
CommittedKeepsRef(session, r) ==
    [last_reply_id |-> session.last_reply_id,
     history |-> Append(session.history, [role |-> "assistant", content |-> r.output_text])]

\* the session dict after the assignments that follow the loop
Committed(session, r) ==
    [last_reply_id |-> r.id,
     history |-> Append(session.history, [role |-> "assistant", content |-> r.output_text])]

\* mutant: leaving the loop with calls still pending is an error
SaveAndReturnFaultsAtCap(p, r) ==
    LET id == session_id[p]
        us == [i \in DOMAIN user_sessions \cup {id} |-> IF i = id THEN s[p] ELSE user_sessions[i]]
        h == [heap EXCEPT ![s[p]] = Committed(@, r)]
    IN IF Classify(r) # "break"
       THEN /\ pc' = [pc EXCEPT ![p] = "raised"]
            /\ res' = [res EXCEPT ![p] = NoRes]
            /\ req' = [req EXCEPT ![p] = NoReq]
            /\ invoked' = [invoked EXCEPT ![p] = <<>>]
            /\ events' = [events EXCEPT ![p] = <<>>]
            /\ UNCHANGED <<user_sessions, heap, ret, chain, wiped, round, calls>>
       ELSE /\ user_sessions' = us
            /\ heap' = Collect(h, us, Live(p) \cup {s[p]})
            /\ res' = [res EXCEPT ![p] = r]
            /\ req' = [req EXCEPT ![p] = NoReq]
            /\ ret' = [ret EXCEPT ![p] = r]
            /\ pc' = [pc EXCEPT ![p] = "returned"]
            /\ chain' = [chain EXCEPT ![id] = r.id]
            /\ wiped' = wiped
            /\ invoked' = [invoked EXCEPT ![p] = <<>>]
            /\ events' = [events EXCEPT ![p] = <<>>]
            /\ UNCHANGED <<round, calls>>

\* the loop has ended: the state is saved and res returned
SaveAndReturn(p, r) ==
    LET id == session_id[p]
        us == [i \in DOMAIN user_sessions \cup {id} |-> IF i = id THEN s[p] ELSE user_sessions[i]]
        h == [heap EXCEPT ![s[p]] = Committed(@, r)]
    IN /\ user_sessions' = us
       /\ heap' = Collect(h, us, Live(p) \cup {s[p]})
       /\ res' = [res EXCEPT ![p] = r]
       /\ req' = [req EXCEPT ![p] = NoReq]
       /\ ret' = [ret EXCEPT ![p] = r]
       /\ pc' = [pc EXCEPT ![p] = "returned"]
       /\ chain' = [chain EXCEPT ![id] = r.id]
       /\ wiped' = wiped
       /\ invoked' = [invoked EXCEPT ![p] = <<>>]
       /\ events' = [events EXCEPT ![p] = <<>>]
       /\ UNCHANGED <<round, calls>>

\* mutant: `while True` in place of `for _ in range(10)`
TurnUnbounded(p, output) ==
    LET r == Response(req[p], output)
    IN /\ pc[p] = "wait"
       /\ IF Classify(r) = "break"
          THEN Received(p, output) /\ SaveAndReturn(p, r)
          ELSE /\ pc' = [pc EXCEPT ![p] = "call"]
               /\ res' = [res EXCEPT ![p] = r]
               /\ req' = [req EXCEPT ![p] =
                             IF Classify(r) = "tool_outputs"
                             THEN ToolOutputsRequest(LocalOutputs(r, session_id[p]), r.id)
                             ELSE ApprovalsRequest(ApprovalInput(r), r.id)]
               /\ invoked' = [invoked EXCEPT ![p] = <<>>]
               /\ events' = [events EXCEPT ![p] = <<>>]
               /\ UNCHANGED <<user_sessions, heap, ret, chain, wiped, round, calls, replies, streak>>
       /\ UNCHANGED <<config, notes, openalex, hist, session_id, msg, s, pre, sends, sent>>

\* responses.create returns a turn result: __call__ runs on to its next
\* responses.create call, or to its return
Turn(p, output) ==
    LET r == Response(req[p], output)
    IN /\ pc[p] = "wait"
       /\ Received(p, output)
       /\ IF round[p] < MaxRounds /\ Classify(r) = "tool_outputs"
          THEN DispatchLocal(p, r)
          ELSE IF round[p] < MaxRounds /\ Classify(r) = "approvals"
               THEN Approve(p, r)
               ELSE SaveAndReturn(p, r)
       /\ UNCHANGED <<config, notes, openalex, hist, session_id, msg, s, pre, sends, sent>>

\* the caller has the result or the exception; the frame of __call__ is gone
Finish(p) ==
    /\ pc[p] \in {"returned", "raised"}
    /\ pc' = [pc EXCEPT ![p] = "idle"]
    /\ heap' = Collect(heap, user_sessions, Live(p))
    /\ session_id' = [session_id EXCEPT ![p] = None]
    /\ msg' = [msg EXCEPT ![p] = None]
    /\ s' = [s EXCEPT ![p] = 0]
    /\ res' = [res EXCEPT ![p] = NoRes]
    /\ req' = [req EXCEPT ![p] = NoReq]
    /\ ret' = [ret EXCEPT ![p] = NoRes]
    /\ round' = [round EXCEPT ![p] = 0]
    /\ calls' = [calls EXCEPT ![p] = 0]
    /\ replies' = [replies EXCEPT ![p] = 0]
    /\ streak' = [streak EXCEPT ![p] = 0]
    /\ pre' = [pre EXCEPT ![p] = Absent]
    /\ invoked' = [invoked EXCEPT ![p] = <<>>]
    /\ events' = [events EXCEPT ![p] = <<>>]
    /\ UNCHANGED <<config, notes, openalex, hist, user_sessions, chain, sends, sent, wiped>>

\* mutant: history uses setdefault, which stores the default it returns
HistoryCallSetsDefault(id) ==
    /\ hist' = History(id)
    /\ IF id \in DOMAIN user_sessions
       THEN UNCHANGED <<user_sessions, heap>>
       ELSE LET r == NewRef(heap)
            IN /\ user_sessions' = [i \in DOMAIN user_sessions \cup {id} |->
                                       IF i = id THEN r ELSE user_sessions[i]]
               /\ heap' = [x \in DOMAIN heap \cup {r} |->
                              IF x \in DOMAIN heap THEN heap[x] ELSE NewSession]
    /\ UNCHANGED <<config, notes, openalex, pc, session_id, msg, s, res, req, round, ret, calls, replies,
                   streak, pre, chain, sends, sent, wiped, invoked, events>>

\* Agent.history: the history list of the session, or an empty list
HistoryCall(id) ==
    /\ hist' = History(id)
    /\ UNCHANGED <<config, notes, openalex, user_sessions, heap, pc, session_id, msg, s, res, req, round, ret,
                   calls, replies, streak, pre, chain, sends, sent, wiped, invoked, events>>

\* mutant: reset also empties the session dict it removes
ResetInPlace(id) ==
    /\ IF id \in DOMAIN user_sessions
       THEN LET us == [i \in DOMAIN user_sessions \ {id} |-> user_sessions[i]]
                h == [heap EXCEPT ![user_sessions[id]] = NewSession]
            IN /\ user_sessions' = us
               /\ heap' = Collect(h, us, Live(0))
               /\ wiped' = wiped \cup {id}
       ELSE UNCHANGED <<user_sessions, heap, wiped>>
    /\ chain' = [chain EXCEPT ![id] = None]
    /\ UNCHANGED <<config, notes, openalex, hist, pc, session_id, msg, s, res, req, round, ret, calls, replies, streak,
                   pre, sends, sent, invoked, events>>

\* mutant: reset empties the whole map
ResetDropsAll(id) ==
    /\ IF id \in DOMAIN user_sessions
       THEN LET us == [i \in {} |-> 0]
            IN /\ user_sessions' = us
               /\ heap' = Collect(heap, us, Live(0))
               /\ wiped' = wiped \cup {id}
       ELSE UNCHANGED <<user_sessions, heap, wiped>>
    /\ chain' = [chain EXCEPT ![id] = None]
    /\ UNCHANGED <<config, notes, openalex, hist, pc, session_id, msg, s, res, req, round, ret, calls, replies, streak,
                   pre, sends, sent, invoked, events>>

\* Agent.reset
Reset(id) ==
    /\ IF id \in DOMAIN user_sessions
       THEN LET us == [i \in DOMAIN user_sessions \ {id} |-> user_sessions[i]]
            IN /\ user_sessions' = us
               /\ heap' = Collect(heap, us, Live(0))
               /\ wiped' = wiped \cup {id}
       ELSE UNCHANGED <<user_sessions, heap, wiped>>
    /\ chain' = [chain EXCEPT ![id] = None]
    /\ UNCHANGED <<config, notes, openalex, hist, pc, session_id, msg, s, res, req, round, ret, calls, replies, streak,
                   pre, sends, sent, invoked, events>>

\* ------------------------------------------------------------------------
\* Spec: one caller, calls made one after another
\* ------------------------------------------------------------------------
Next ==
    \/ \E message \in Messages : Send(1, message, DefaultSession)
    \/ Deliver(1)
    \/ ReplyFail(1)
    \/ \E output \in Outputs : Turn(1, output)
    \/ Finish(1)
    \/ pc[1] = "idle" /\ Reset(DefaultSession)

Spec == Init /\ [][Next]_vars

\* ------------------------------------------------------------------------
\* SpecStore: one caller on either session id; history and reset are called
\* at any moment, also while __call__ is blocked in responses.create (from
\* another thread, or from a handler)
\* ------------------------------------------------------------------------
StoreOutputs == { <<>>,
                  <<FunctionCall("Weather", ArgParis, "c1")>>,
                  <<ApprovalRequest("a1")>> }

NextStore ==
    \/ \E message \in Messages, id \in SessionIds : Send(1, message, id)
    \/ Deliver(1)
    \/ ReplyFail(1)
    \/ \E output \in StoreOutputs : Turn(1, output)
    \/ Finish(1)
    \/ \E id \in SessionIds : Reset(id)
    \/ \E id \in SessionIds : HistoryCall(id)

SpecStore == Init /\ [][NextStore]_vars

\* ------------------------------------------------------------------------
\* SpecLive: one caller; __call__ takes its next step whenever it can, and
\* every responses.create call returns a turn result or raises in the end
\* ------------------------------------------------------------------------
LiveOutputs == { <<>>,
                 <<FunctionCall("Weather", ArgParis, "c1")>>,
                 <<ApprovalRequest("a1"), FunctionCall("Ghost", ArgParis, "c6")>> }

NextLive ==
    \/ \E message \in Messages : Send(1, message, DefaultSession)
    \/ Deliver(1)
    \/ ReplyFail(1)
    \/ \E output \in LiveOutputs : Turn(1, output)
    \/ Finish(1)

SpecLive ==
    /\ Init
    /\ [][NextLive]_vars
    /\ WF_vars(Deliver(1))
    /\ WF_vars(ReplyFail(1) \/ \E output \in LiveOutputs : Turn(1, output))

\* ------------------------------------------------------------------------
\* SpecPar: two callers at once, each on a session id of its own; reset is
\* called on an id while no __call__ on that id is running
\* ------------------------------------------------------------------------
CallerSession(p) == IF p = 1 THEN DefaultSession ELSE "u2"
CallerMessage(p) == IF p = 1 THEN "hi" ELSE "yo"

\* the turn results the Model Service gives two callers at once
ParOutputs == { <<>>,
                <<FunctionCall("Weather", ArgParis, "c1")>>,
                <<ApprovalRequest("a1")>> }

\* a __call__ on id is running
InFlight(id) == \E p \in Procs : pc[p] # "idle" /\ session_id[p] = id

NextPar ==
    \/ \E p \in Procs : Send(p, CallerMessage(p), CallerSession(p))
    \/ \E p \in Procs : Deliver(p)
    \/ \E p \in Procs : ReplyFail(p)
    \/ \E p \in Procs : \E output \in ParOutputs : Turn(p, output)
    \/ \E p \in Procs : Finish(p)
    \/ \E id \in SessionIds : ~InFlight(id) /\ Reset(id)

SpecPar == Init /\ [][NextPar]_vars

\* ------------------------------------------------------------------------
\* SpecRace: two callers at once on the same session id
\* ------------------------------------------------------------------------
NextRace ==
    \/ \E p \in Procs : Send(p, CallerMessage(p), DefaultSession)
    \/ \E p \in Procs : Deliver(p)
    \/ \E p \in Procs : ReplyFail(p)
    \/ \E p \in Procs : \E output \in ParOutputs : Turn(p, output)
    \/ \E p \in Procs : Finish(p)

SpecRace == Init /\ [][NextRace]_vars

\* ------------------------------------------------------------------------
\* SpecReg: agents built from tool lists of every kind of declaration, with
\* two classes of one name, a dict of type function and a declaration the
\* constructor skips; one caller
\* ------------------------------------------------------------------------
RegToolLists == { NoTools,
                  SomeTools,
                  <<WeatherTool, McpTool, WeatherFixed>>,
                  <<WeatherFixed, PingTool, WeatherTool>>,
                  <<FunctionDict, WeatherTool>>,
                  <<PlainClass, PingTool, McpTool>> }

RegConfigs == { <<ts, "auto">> : ts \in RegToolLists }

RegItems == { FunctionCall("Weather", ArgAtlantis, "c4"),
              FunctionCall("Ping", ArgEmpty, "c5"),
              FunctionCall("Lookup", ArgParis, "c7"),
              FunctionCall("Weather", None, "c8"),
              ApprovalRequest("a1") }

RegOutputs == UNION { [1..n -> RegItems] : n \in 0..2 }

InitReg == Constructed(RegConfigs)

NextReg ==
    \/ \E message \in Messages : Send(1, message, DefaultSession)
    \/ Deliver(1)
    \/ ReplyFail(1)
    \/ \E output \in RegOutputs : Turn(1, output)
    \/ Finish(1)

SpecReg == InitReg /\ [][NextReg]_vars

\* ------------------------------------------------------------------------
\* The notes service (src/5-mcp/servers/notes.py).  A string is the
\* sequence of its characters; an optional argument is Some(string) or
\* NoneVal.
\* ------------------------------------------------------------------------
RECURSIVE LStrip(_)
LStrip(str) == IF str # <<>> /\ Head(str) = " " THEN LStrip(Tail(str)) ELSE str

RECURSIVE RStrip(_)
RStrip(str) ==
    IF str # <<>> /\ str[Len(str)] = " " THEN RStrip(SubSeq(str, 1, Len(str) - 1)) ELSE str

\* str.strip()
Strip(str) == RStrip(LStrip(str))

\* (x or "")
OrEmpty(x) == IF x.tag = None THEN <<>> ELSE x.val

\* the default notebook, "scrapbook"
Scrapbook == <<"s", "c", "r", "a", "p", "b", "o", "o", "k">>

\* the arguments the tools are called with
Titles == { <<" ">>, <<" ", "t">> }
Bodies == { <<>>, <<"b", " ">> }
Notebooks == { NoneVal, Some(<<" ">>), Some(<<"w">>) }
Dates == { NoneVal, Some(<<"1">>) }
\* datetime.now(timezone.utc).strftime(...)
Clock == { <<"2">> }
Targets == { <<" ">>, <<"w", " ">> }
NoteIds == (0 - 1)..(MaxNotes + 1)

\* the outcome of a tool call that raised ValueError
Raised(op, note_id) ==
    [op |-> op, raised |-> TRUE, note_id |-> note_id, deleted |-> FALSE, note |-> NoNote]

\* mutant: a new note takes the lowest id that is not in the store
add_note_lowest_free(title, body, notebook, created_at) ==
    \E now \in Clock :
        LET title1 == Strip(title)
            body1 == Strip(body)
            notebook1 == IF Strip(OrEmpty(notebook)) # <<>>
                         THEN Strip(OrEmpty(notebook)) ELSE Scrapbook
            created_at1 == IF Strip(OrEmpty(created_at)) # <<>>
                           THEN Strip(OrEmpty(created_at)) ELSE now
            free == CHOOSE k \in 1..NEXT_ID :
                        k \notin DOMAIN NOTES_BY_ID /\ \A j \in 1..(k - 1) : j \in DOMAIN NOTES_BY_ID
            note == [id |-> free, notebook |-> notebook1, created_at |-> created_at1,
                     title |-> title1, body |-> body1]
        IN /\ IF title1 = <<>> \/ body1 = <<>>
              THEN /\ nres' = Raised("add_note", 0)
                   /\ UNCHANGED <<NOTES_BY_ID, NEXT_ID>>
              ELSE /\ NEXT_ID <= MaxNotes
                   /\ NOTES_BY_ID' = [i \in DOMAIN NOTES_BY_ID \cup {free} |->
                                         IF i = free THEN note ELSE NOTES_BY_ID[i]]
                   /\ NEXT_ID' = NEXT_ID + 1
                   /\ nres' = [op |-> "add_note", raised |-> FALSE, note_id |-> 0,
                               deleted |-> FALSE, note |-> note]
           /\ UNCHANGED <<agent, openalex>>

\* add_note
add_note(title, body, notebook, created_at) ==
    \E now \in Clock :
        LET title1 == Strip(title)
            body1 == Strip(body)
            notebook1 == IF Strip(OrEmpty(notebook)) # <<>>
                         THEN Strip(OrEmpty(notebook)) ELSE Scrapbook
            created_at1 == IF Strip(OrEmpty(created_at)) # <<>>
                           THEN Strip(OrEmpty(created_at)) ELSE now
            note == [id |-> NEXT_ID, notebook |-> notebook1, created_at |-> created_at1,
                     title |-> title1, body |-> body1]
        IN /\ IF title1 = <<>> \/ body1 = <<>>
              THEN /\ nres' = Raised("add_note", 0)
                   /\ UNCHANGED <<NOTES_BY_ID, NEXT_ID>>
              ELSE /\ NEXT_ID <= MaxNotes
                   /\ NOTES_BY_ID' = [i \in DOMAIN NOTES_BY_ID \cup {NEXT_ID} |->
                                         IF i = NEXT_ID THEN note ELSE NOTES_BY_ID[i]]
                   /\ NEXT_ID' = NEXT_ID + 1
                   /\ nres' = [op |-> "add_note", raised |-> FALSE, note_id |-> 0,
                               deleted |-> FALSE, note |-> note]
           /\ UNCHANGED <<agent, openalex>>

\* mutant: a note that is not in the store is an error
delete_note_strict(note_id) ==
    /\ IF note_id <= 0 \/ note_id \notin DOMAIN NOTES_BY_ID
       THEN /\ nres' = Raised("delete_note", note_id)
            /\ UNCHANGED <<NOTES_BY_ID, NEXT_ID>>
       ELSE /\ NOTES_BY_ID' = [i \in DOMAIN NOTES_BY_ID \ {note_id} |-> NOTES_BY_ID[i]]
            /\ nres' = [op |-> "delete_note", raised |-> FALSE, note_id |-> note_id,
                        deleted |-> TRUE, note |-> NoNote]
            /\ UNCHANGED NEXT_ID
    /\ UNCHANGED <<agent, openalex>>

\* delete_note
delete_note(note_id) ==
    /\ IF note_id <= 0
       THEN /\ nres' = Raised("delete_note", note_id)
            /\ UNCHANGED <<NOTES_BY_ID, NEXT_ID>>
       ELSE LET deleted == note_id \in DOMAIN NOTES_BY_ID
            IN /\ NOTES_BY_ID' = [i \in DOMAIN NOTES_BY_ID \ {note_id} |-> NOTES_BY_ID[i]]
               /\ nres' = [op |-> "delete_note", raised |-> FALSE, note_id |-> note_id,
                           deleted |-> deleted, note |-> NoNote]
               /\ UNCHANGED NEXT_ID
    /\ UNCHANGED <<agent, openalex>>

\* move_note
move_note(note_id, to_notebook) ==
    /\ IF note_id <= 0
       THEN /\ nres' = Raised("move_note", note_id)
            /\ UNCHANGED <<NOTES_BY_ID, NEXT_ID>>
       ELSE IF Strip(to_notebook) = <<>>
            THEN /\ nres' = Raised("move_note", note_id)
                 /\ UNCHANGED <<NOTES_BY_ID, NEXT_ID>>
            ELSE IF note_id \notin DOMAIN NOTES_BY_ID
                 THEN /\ nres' = Raised("move_note", note_id)
                      /\ UNCHANGED <<NOTES_BY_ID, NEXT_ID>>
                 ELSE /\ NOTES_BY_ID' = [NOTES_BY_ID EXCEPT ![note_id].notebook = Strip(to_notebook)]
                      /\ nres' = [op |-> "move_note", raised |-> FALSE, note_id |-> note_id,
                                  deleted |-> FALSE, note |-> NOTES_BY_ID'[note_id]]
                      /\ UNCHANGED NEXT_ID
    /\ UNCHANGED <<agent, openalex>>

\* SpecNotes: the tools of the notes service called in any order
InitNotes == Constructed({<<NoTools, "auto">>})

NextNotes ==
    \/ \E title \in Titles, body \in Bodies, notebook \in Notebooks, created_at \in Dates :
          add_note(title, body, notebook, created_at)
    \/ \E note_id \in NoteIds : delete_note(note_id)
    \/ \E note_id \in NoteIds, to_notebook \in Targets : move_note(note_id, to_notebook)

SpecNotes == InitNotes /\ [][NextNotes]_vars

\* ------------------------------------------------------------------------
\* _get (src/4-rag-search/Labs/create-openalex-table.py).  A header value
\* is the sequence of its characters; "sup2" stands for the character
\* U+00B2 (superscript two), which the module cannot spell.
\* ------------------------------------------------------------------------
RETRYABLE_STATUS_CODES == {429, 500, 502, 503, 504}

\* the default of base_backoff_sec
BaseBackoff == 1

AsciiDigits == {"0", "1", "2", "3", "4", "5", "6", "7", "8", "9"}

\* str.isdigit(): non-empty, and every character is a digit of some script
IsDigit(str) ==
    str # <<>> /\ \A i \in 1..Len(str) : str[i] \in AsciiDigits \cup {"sup2"}

DigitVal(c) ==
    CASE c = "0" -> 0 [] c = "1" -> 1 [] c = "2" -> 2 [] c = "3" -> 3 [] c = "4" -> 4
      [] c = "5" -> 5 [] c = "6" -> 6 [] c = "7" -> 7 [] c = "8" -> 8 [] c = "9" -> 9

RECURSIVE DigitsVal(_)
DigitsVal(str) ==
    IF str = <<>> THEN 0
    ELSE 10 * DigitsVal(SubSeq(str, 1, Len(str) - 1)) + DigitVal(str[Len(str)])

\* float(retry_after) of a string that passed isdigit(): the number, or
\* ValueError for a digit that is not a decimal digit
Float(str) ==
    IF \A i \in 1..Len(str) : str[i] \in AsciiDigits
    THEN [ok |-> TRUE, val |-> DigitsVal(str)]
    ELSE [ok |-> FALSE, val |-> 0]

RECURSIVE Pow2(_)
Pow2(n) == IF n <= 0 THEN 1 ELSE 2 * Pow2(n - 1)

\* base_backoff_sec * (2 ** (attempt - 1))
Backoff(n) == BaseBackoff * Pow2(n - 1)

\* what one SESSION.get call gives: a RequestException, or a response with
\* a status, a Retry-After header (empty when absent) and a body that is
\* JSON or not
StatusCodes == {200, 404, 429, 503}
RetryAfters == { <<>>, <<" ", "2">>, <<"s">>, <<"sup2">> }
TransportError == [kind |-> "error", status_code |-> 0, retry_after |-> <<>>, json |-> FALSE]
Replies ==
    {TransportError} \cup
    { [kind |-> "response", status_code |-> c, retry_after |-> h, json |-> j] :
        c \in StatusCodes, h \in RetryAfters, j \in BOOLEAN }

\* time.sleep(sec); continue
Sleeps(sec) ==
    /\ get_pc' = "sleep"
    /\ sleep_for' = sec
    /\ UNCHANGED outcome

\* raise
Raises(kind, what) ==
    /\ get_pc' = "raised"
    /\ outcome' = [kind |-> kind, what |-> what]
    /\ UNCHANGED sleep_for

\* return r.json()
Returns ==
    /\ get_pc' = "returned"
    /\ outcome' = [kind |-> "returned", what |-> "body"]
    /\ UNCHANGED sleep_for

\* _get is called: the loop is entered, or is empty
GetCall(m) ==
    /\ get_pc = "idle"
    /\ max_retries' = m
    /\ last_error' = None
    /\ http_calls' = 0
    /\ seen' = NoReply
    /\ IF 1 <= m
       THEN /\ attempt' = 1
            /\ get_pc' = "get"
            /\ UNCHANGED <<outcome, sleep_for>>
       ELSE /\ Raises("RuntimeError", "failed after attempts")
            /\ UNCHANGED attempt
    /\ UNCHANGED <<agent, notes>>

\* mutant: a retryable status is retried on the last attempt too
AttemptRetriesOnLast(reply) ==
    /\ get_pc = "get"
    /\ http_calls' = http_calls + 1
    /\ seen' = reply
    /\ IF reply.kind = "error"
       THEN /\ last_error' = "RequestException"
            /\ IF attempt = max_retries
               THEN Raises("RuntimeError", "failed after attempts")
               ELSE Sleeps(Backoff(attempt))
       ELSE /\ UNCHANGED last_error
            /\ IF reply.status_code \in RETRYABLE_STATUS_CODES /\ attempt <= max_retries
               THEN LET retry_after == Strip(reply.retry_after)
                    IN IF IsDigit(retry_after)
                       THEN IF Float(retry_after).ok
                            THEN Sleeps(Float(retry_after).val)
                            ELSE Raises("ValueError", "could not convert string to float")
                       ELSE Sleeps(Backoff(attempt))
               ELSE IF reply.status_code >= 400
                    THEN Raises("RuntimeError", "request failed")
                    ELSE IF reply.json
                         THEN Returns
                         ELSE Raises("RuntimeError", "non-JSON response")
    /\ UNCHANGED <<max_retries, attempt, agent, notes>>

\* one iteration of the loop, from SESSION.get to its continue, break,
\* return or raise
Attempt(reply) ==
    /\ get_pc = "get"
    /\ http_calls' = http_calls + 1
    /\ seen' = reply
    /\ IF reply.kind = "error"
       THEN /\ last_error' = "RequestException"
            /\ IF attempt = max_retries
               THEN Raises("RuntimeError", "failed after attempts")
               ELSE Sleeps(Backoff(attempt))
       ELSE /\ UNCHANGED last_error
            /\ IF reply.status_code \in RETRYABLE_STATUS_CODES /\ attempt < max_retries
               THEN LET retry_after == Strip(reply.retry_after)
                    IN IF IsDigit(retry_after)
                       THEN IF Float(retry_after).ok
                            THEN Sleeps(Float(retry_after).val)
                            ELSE Raises("ValueError", "could not convert string to float")
                       ELSE Sleeps(Backoff(attempt))
               ELSE IF reply.status_code >= 400
                    THEN Raises("RuntimeError", "request failed")
                    ELSE IF reply.json
                         THEN Returns
                         ELSE Raises("RuntimeError", "non-JSON response")
    /\ UNCHANGED <<max_retries, attempt, agent, notes>>

\* time.sleep returns: the loop takes its next value, or is exhausted
Wake ==
    /\ get_pc = "sleep"
    /\ attempt' = attempt + 1
    /\ IF attempt + 1 <= max_retries
       THEN /\ get_pc' = "get"
            /\ sleep_for' = 0
            /\ UNCHANGED outcome
       ELSE /\ get_pc' = "raised"
            /\ outcome' = [kind |-> "RuntimeError", what |-> "failed after attempts"]
            /\ sleep_for' = 0
    /\ UNCHANGED <<max_retries, last_error, http_calls, seen, agent, notes>>

\* SpecGet: one call of _get; every SESSION.get call returns or raises
\* (timeout=60) and every time.sleep ends
InitGet == Constructed({<<NoTools, "auto">>})

NextGet ==
    \/ \E m \in 0..MaxRetries : GetCall(m)
    \/ \E reply \in Replies : Attempt(reply)
    \/ Wake

SpecGet ==
    /\ InitGet
    /\ [][NextGet]_vars
    /\ WF_vars(\E reply \in Replies : Attempt(reply))
    /\ WF_vars(Wake)


\* ========================================================================
\* Claims
\* ========================================================================
Min(a, b) == IF a < b THEN a ELSE b

\* the function calls of a turn result whose name is in the dispatch table
Dispatchable(output) ==
    SelectSeq(output, LAMBDA it : it.type = "function_call" /\ it.name \in DOMAIN tool_map)

\* the approval requests of a turn result
Approvals(output) == SelectSeq(output, LAMBDA it : it.type = "mcp_approval_request")

\* the function calls of a turn result whose name is not in the dispatch table
Undispatchable(output) ==
    SelectSeq(output, LAMBDA it : it.type = "function_call" /\ it.name \notin DOMAIN tool_map)

\* a follow-up request is in flight, built from the turn result res[p]
FollowUp(p) == pc[p] = "call" /\ calls[p] > 1

\* C1: when a Model Service call of a Send fails, the stored session of its
\* id is exactly what it was when the Send was invoked (same history, same
\* continuation reference, or still absent).
C1_NoPartialCommit ==
    \A p \in Procs : pc[p] = "raised" => Stored(session_id[p]) = pre[p]

\* C2: one Send makes at most 10 follow-up Model Service calls after the
\* initial one (at most 11 in total).
C2_AtMostTenFollowUps ==
    \A p \in Procs : calls[p] <= 11 /\ calls[p] - 1 <= 10

C2_Witness == \E p \in Procs : calls[p] = 11 /\ pc[p] = "returned"

\* C3: a dispatched local call that fails (JSON parsing, validation or the
\* handler) does not make Send fail: Send fails only when a Model Service
\* call got no reply; the follow-up request has one tool-output entry per
\* dispatchable call, in order and under that call's id, and the entry of a
\* failed call carries the error message; a turn with a failed call is
\* followed up like any other (it ends the Send only at the cap).
C3_ToolFailureRecovered ==
    \A p \in Procs :
        /\ pc[p] = "raised" => replies[p] + 1 = calls[p]
        /\ FollowUp(p) /\ Dispatchable(res[p].output) # <<>> =>
              LET d == Dispatchable(res[p].output)
              IN /\ Len(req[p].input) = Len(d)
                 /\ \A i \in 1..Len(d) :
                       LET run == RunTool(d[i], session_id[p])
                       IN /\ req[p].input[i].type = "function_call_output"
                          /\ req[p].input[i].call_id = d[i].call_id
                          /\ ~run.ok => req[p].input[i].output = "Oshibka: " \o run.err
        /\ pc[p] = "returned"
              /\ (\E i \in 1..Len(Dispatchable(res[p].output)) :
                     ~RunTool(Dispatchable(res[p].output)[i], session_id[p]).ok)
              => calls[p] = 11

C3_Witness ==
    \E p \in Procs :
        /\ FollowUp(p)
        /\ Len(Dispatchable(res[p].output)) = 2
        /\ ~RunTool(Dispatchable(res[p].output)[1], session_id[p]).ok
        /\ RunTool(Dispatchable(res[p].output)[2], session_id[p]).ok
        /\ req[p].input[1].output = "Oshibka: unknown city"

C5_CallCount ==
    \A p \in Procs : pc[p] = "returned" => calls[p] = 1 + Min(streak[p], 10)

C5_Witness ==
    \E p \in Procs :
        /\ pc[p] = "returned"
        /\ calls[p] = 2
        /\ streak[p] = 1
        /\ Dispatchable(res[p].output) = <<>>
        /\ Approvals(res[p].output) = <<>>

\* C6: when Send returns, it returns the turn result received last, the
\* stored continuation reference is that result's id, and the last history
\* entry is the assistant entry with that result's text.
C6_FinalCommit ==
    \A p \in Procs :
        pc[p] = "returned" =>
            LET st == Stored(session_id[p])
            IN /\ ret[p] = res[p]
               /\ ret[p].id # None
               /\ st.present
               /\ st.last_reply_id = ret[p].id
               /\ st.history # <<>>
               /\ st.history[Len(st.history)] = [role |-> "assistant", content |-> ret[p].output_text]

C6_Witness ==
    \E p \in Procs :
        /\ pc[p] = "returned"
        /\ calls[p] = 2
        /\ pre[p].present
        /\ pre[p].last_reply_id # ret[p].id
        /\ Len(Stored(session_id[p]).history) = 4

\* the approval responses the claim expects for a turn result
ExpectedApprovals(output) ==
    [i \in 1..Len(Approvals(output)) |->
        [type |-> "mcp_approval_response", approve |-> TRUE,
         approval_request_id |-> Approvals(output)[i].id]]

\* a turn result with approval requests and no dispatchable function call
ApprovalOnly(output) == Approvals(output) # <<>> /\ Dispatchable(output) = <<>>

\* C7 as stated: every turn result with approval requests and no
\* dispatchable function call is followed by one call that approves them
\* all, in order, and continues that turn.
C7_ApprovalsAlwaysSent ==
    \A p \in Procs :
        pc[p] \in {"call", "returned"} /\ ApprovalOnly(res[p].output) =>
            /\ pc[p] = "call"
            /\ calls[p] = replies[p] + 1
            /\ req[p].input = ExpectedApprovals(res[p].output)
            /\ req[p].previous_response_id = res[p].id

\* C7 as amended: the same, for every turn result but the 11th of a Send
\* (the one received after 10 follow-up calls), which ends the Send.
C7_ApprovalsSentBelowCap ==
    \A p \in Procs :
        pc[p] \in {"call", "returned"} /\ ApprovalOnly(res[p].output) /\ replies[p] <= 10 =>
            /\ pc[p] = "call"
            /\ calls[p] = replies[p] + 1
            /\ req[p].input = ExpectedApprovals(res[p].output)
            /\ req[p].previous_response_id = res[p].id

C7_Witness ==
    \E p \in Procs :
        /\ FollowUp(p)
        /\ res[p].output = <<ApprovalRequest("a2"), ApprovalRequest("a1")>>
        /\ Len(req[p].input) = 2
        /\ req[p].input[1].approval_request_id = "a2"
        /\ req[p].input[2].approval_request_id = "a1"

\* C8: an engine built with no tools sends no tool-choice policy value in
\* any request, first or follow-up.
C8_NoPolicyWithoutTools ==
    tools = <<>> => \A p \in Procs : pc[p] = "call" => req[p].tool_choice \notin ToolChoices

C8_Witness ==
    /\ tools = <<>>
    /\ tool_choice \in ToolChoices
    /\ \E p \in Procs : FollowUp(p)

\* C9: when a turn result has both a dispatchable function call and an
\* approval request, the follow-up request carries the tool outputs only:
\* one per dispatchable call and no approval response.
C9_FunctionCallsFirst ==
    \A p \in Procs :
        FollowUp(p) /\ Dispatchable(res[p].output) # <<>> /\ Approvals(res[p].output) # <<>> =>
            /\ Len(req[p].input) = Len(Dispatchable(res[p].output))
            /\ \A i \in 1..Len(req[p].input) :
                  /\ req[p].input[i].type = "function_call_output"
                  /\ req[p].input[i].call_id = Dispatchable(res[p].output)[i].call_id

C9_Witness ==
    \E p \in Procs :
        /\ FollowUp(p)
        /\ res[p].output = <<ApprovalRequest("a1"), FunctionCall("Weather", ArgParis, "c1")>>
        /\ Len(req[p].input) = 1

\* C10: the first request of a Send carries the continuation reference the
\* last completed Send on the session left (None if there is none since
\* creation or reset), which is the stored one; every follow-up request
\* carries the id of the turn result received just before it; and when Send
\* returns, the stored continuation reference is the id of its last turn
\* result.
C10_ContinuationChain ==
    \A p \in Procs :
        /\ pc[p] = "call" /\ calls[p] = 1 =>
              /\ req[p].previous_response_id = chain[session_id[p]]
              /\ req[p].previous_response_id = pre[p].last_reply_id
              /\ (~pre[p].present => req[p].previous_response_id = None)
        /\ FollowUp(p) =>
              /\ res[p].id # None
              /\ req[p].previous_response_id = res[p].id
        /\ pc[p] = "returned" =>
              /\ Stored(session_id[p]).last_reply_id = res[p].id
              /\ chain[session_id[p]] = res[p].id

C10_Witness ==
    \E p \in Procs :
        /\ pc[p] = "call"
        /\ calls[p] = 1
        /\ req[p].previous_response_id = "resp_2"
        /\ chain[session_id[p]] = "resp_2"

\* the two history entries of one completed Send
UserEntry(p) == [role |-> "user", content |-> msg[p]]
AssistantEntry(r) == [role |-> "assistant", content |-> r.output_text]

IsPrefix(a, b) == Len(a) <= Len(b) /\ SubSeq(b, 1, Len(a)) = a

\* C11: a Send that returns has lengthened the history of its session by
\* exactly two entries, the user message and then the text of its last
\* turn result, however many follow-up calls it made; and at no point of a
\* Send is an entry that was there when it was invoked changed or removed.
C11_TwoEntriesPerSend ==
    \A p \in Procs :
        /\ pc[p] = "returned" =>
              History(session_id[p]) = pre[p].history \o <<UserEntry(p), AssistantEntry(ret[p])>>
        /\ pc[p] # "idle" => IsPrefix(pre[p].history, heap[s[p]].history)
        /\ pc[p] # "idle" /\ pre[p].present => IsPrefix(pre[p].history, History(session_id[p]))

C11_Witness ==
    \E p \in Procs :
        /\ pc[p] = "returned"
        /\ calls[p] = 4
        /\ Len(pre[p].history) = 2
        /\ Len(History(session_id[p])) = 4

\* C14: no retry.  A Model Service call is made only as the first of a
\* Send or after the previous one returned a turn result, so none follows
\* a failed one; and once a call has failed, the Send invokes no handler,
\* holds no request, and its only step is the one that hands the failure
\* to the caller.
C14_NoRetry ==
    /\ [](\A p \in Procs :
            /\ pc[p] \in {"call", "wait", "raised"} => calls[p] = replies[p] + 1
            /\ pc[p] = "returned" => calls[p] = replies[p]
            /\ pc[p] = "raised" => invoked[p] = <<>> /\ req[p] = NoReq)
    /\ [][\A p \in Procs :
            pc[p] = "raised" => pc'[p] \in {"raised", "idle"} /\ calls'[p] \in {calls[p], 0}]_vars

C14_Witness ==
    \E p \in Procs :
        /\ pc[p] = "raised"
        /\ calls[p] = 3
        /\ replies[p] = 2

\* C15: the 11th turn result of a Send ends it normally whatever its items:
\* Send returns that result, its id and text are committed to the session,
\* no handler is dispatched and no further request is made for it.
C15_CapReturnsNormally ==
    \A p \in Procs :
        replies[p] = 11 =>
            /\ pc[p] = "returned"
            /\ calls[p] = 11
            /\ ret[p] = res[p]
            /\ ret[p].id # None
            /\ Stored(session_id[p]).last_reply_id = ret[p].id
            /\ History(session_id[p]) # <<>>
            /\ History(session_id[p])[Len(History(session_id[p]))] = AssistantEntry(ret[p])
            /\ invoked[p] = <<>>
            /\ req[p] = NoReq

C15_Witness ==
    \E p \in Procs :
        /\ pc[p] = "returned"
        /\ replies[p] = 11
        /\ streak[p] = 11
        /\ Dispatchable(ret[p].output) # <<>>
        /\ Approvals(ret[p].output) # <<>>

\* the session dict a Send on a session that does not exist starts from,
\* once the user entry is appended
FreshStart(p) == [last_reply_id |-> None, history |-> <<UserEntry(p)>>]

\* C12: for an id no Send was ever invoked on, History is the empty
\* sequence and there is no stored session; and the first Send on an id
\* sends no continuation reference and starts from an empty history.
C12_NeverSentEmpty ==
    /\ \A id \in SessionIds : sent[id] = 0 => History(id) = <<>> /\ Stored(id) = Absent
    /\ \A p \in Procs :
          pc[p] = "call" /\ calls[p] = 1 /\ sent[session_id[p]] = 1 =>
              /\ pre[p] = Absent
              /\ req[p].previous_response_id = None
              /\ heap[s[p]] = FreshStart(p)

C12_Witness ==
    \E p \in Procs :
        /\ pc[p] = "call"
        /\ calls[p] = 1
        /\ sent[session_id[p]] = 1
        /\ \E id \in SessionIds : id # session_id[p] /\ Len(History(id)) = 2

\* C13: Reset(id), called while no Send on id is running, leaves id with no
\* stored session, an empty History and no continuation reference, and
\* leaves every other session as it was; on an id with no session it
\* changes nothing.  From then until the next Send on id the session stays
\* absent, and that Send sends no continuation reference and starts from
\* an empty history, as on an id never used.
C13_ResetRoundTrip ==
    /\ [](\A id \in wiped : Stored(id) = Absent /\ History(id) = <<>> /\ chain[id] = None)
    /\ [][/\ \A id \in SessionIds :
               ~InFlight(id) /\ Reset(id) =>
                   /\ Stored(id)' = Absent
                   /\ History(id)' = <<>>
                   /\ \A o \in SessionIds \ {id} : Stored(o)' = Stored(o)
                   /\ id \notin DOMAIN user_sessions => UNCHANGED <<user_sessions, heap>>
           /\ \A p \in Procs :
               pc[p] = "idle" /\ pc'[p] = "call" /\ session_id'[p] \in wiped =>
                   /\ req'[p].previous_response_id = None
                   /\ heap'[s'[p]] = FreshStart(p)']_vars

C13_Witness ==
    /\ DefaultSession \in wiped
    /\ sent[DefaultSession] > 0
    /\ History(DefaultSession) = <<>>
    /\ Len(History("u2")) = 2

\* the step is one of caller p
StepOf(p) == pc'[p] # pc[p]

\* the session id caller p works on in this step
StepSession(p) == IF pc[p] = "idle" THEN session_id'[p] ELSE session_id[p]

\* C16: with two Sends running at once on different ids, each works on a
\* session object of its own; its first request carries the reference its
\* own session had at entry and its message, each follow-up the id of its
\* own last turn result; when it returns, its session is the one found at
\* entry plus its own two entries and its own last reference; and no step
\* of a Send changes the stored session of another id.
C16_DifferentIdsIndependent ==
    /\ [](\A p \in Procs :
            /\ \A q \in Procs \ {p} :
                  pc[p] # "idle" /\ pc[q] # "idle" /\ session_id[p] # session_id[q] => s[p] # s[q]
            /\ pc[p] = "call" /\ calls[p] = 1 =>
                  /\ req[p].previous_response_id = pre[p].last_reply_id
                  /\ req[p].input = msg[p]
            /\ FollowUp(p) => req[p].previous_response_id = res[p].id
            /\ pc[p] = "returned" =>
                  Stored(session_id[p]) =
                      [present |-> TRUE,
                       last_reply_id |-> ret[p].id,
                       history |-> pre[p].history \o <<UserEntry(p), AssistantEntry(ret[p])>>])
    /\ [][\A p \in Procs :
            StepOf(p) => \A id \in SessionIds \ {StepSession(p)} : Stored(id)' = Stored(id)]_vars

C16_Witness ==
    /\ pc[1] = "returned" /\ calls[1] = 2
    /\ pc[2] = "returned" /\ calls[2] = 3
    /\ History(DefaultSession) = <<[role |-> "user", content |-> "hi"], AssistantEntry(ret[1])>>
    /\ History("u2") = <<[role |-> "user", content |-> "yo"], AssistantEntry(ret[2])>>

\* C17: nothing orders two Sends on the same id.  A Send takes the stored
\* session object as it is, also while another Send is using it, writes its
\* user entry into it at once and sends the reference found there; when no
\* session is stored it takes a private new object; and its commit stores
\* its own object over whatever is stored.  So when two Sends that both
\* found no session have returned, the history holds the two entries of
\* the one that committed last and those of the other are lost.
C17_SameIdRace ==
    /\ [](\A p \in Procs :
            /\ pc[p] = "call" /\ calls[p] = 1 =>
                  req[p].previous_response_id = pre[p].last_reply_id
            /\ \A q \in Procs \ {p} :
                  /\ pc[p] = "returned" /\ pc[q] = "returned"
                  /\ session_id[p] = session_id[q]
                  /\ pre[p] = Absent /\ pre[q] = Absent
                  => \E w \in {p, q} :
                        /\ History(session_id[p]) = <<UserEntry(w), AssistantEntry(ret[w])>>
                        /\ Stored(session_id[p]).last_reply_id = ret[w].id)
    /\ [][\A p \in Procs :
            /\ \A id \in SessionIds :
                  pc[p] = "idle" /\ pc'[p] = "call" /\ session_id'[p] = id =>
                      IF id \in DOMAIN user_sessions
                      THEN /\ s'[p] = user_sessions[id]
                           /\ History(id)' = Append(History(id), UserEntry(p)')
                      ELSE /\ s'[p] \notin DOMAIN heap
                           /\ id \notin DOMAIN user_sessions'
            /\ pc[p] = "wait" /\ pc'[p] = "returned" =>
                  /\ user_sessions'[session_id[p]] = s[p]
                  /\ Stored(session_id[p])'.last_reply_id = ret'[p].id]_vars

C17_Witness ==
    /\ pc[1] = "returned" /\ pc[2] = "returned"
    /\ pre[1] = Absent /\ pre[2] = Absent
    /\ sent[DefaultSession] = 2
    /\ Len(History(DefaultSession)) = 2

\* the Local and the Remote specs of a tool list, by position
Locals(ts) == { i \in 1..Len(ts) : ts[i].kind = "class" }
Remotes(ts) == { i \in 1..Len(ts) : ts[i].kind = "dict" }

\* the tool list has Local and Remote specs only
OnlySpecs(ts) == \A i \in 1..Len(ts) : i \in Locals(ts) \cup Remotes(ts)

LocalNames(ts) == { ts[i].name : i \in Locals(ts) }

\* the last Local spec of a name
LastLocal(ts, n) ==
    CHOOSE i \in Locals(ts) : ts[i].name = n /\ \A j \in Locals(ts) : ts[j].name = n => j <= i

\* the manifest entry the claims expect for a Local spec
LocalEntry(t) ==
    [type |-> "function", name |-> t.name,
     description |-> IF t.doc = None THEN "" ELSE t.doc,
     parameters |-> [required |-> t.required]]

\* C18 as stated: the manifest has one entry per spec, in input order; a
\* Local spec gives a function entry and its name is mapped to its own
\* handler; a Remote spec is in the manifest unchanged and adds no name to
\* the dispatch table.
C18_EachNameToItsHandler ==
    OnlySpecs(decl) =>
        /\ Len(tools) = Len(decl)
        /\ DOMAIN tool_map = LocalNames(decl)
        /\ \A i \in Locals(decl) :
              /\ tools[i] = LocalEntry(decl[i])
              /\ tool_map[decl[i].name] = decl[i]
        /\ \A i \in Remotes(decl) : tools[i] = decl[i]

\* C18 as amended: the same, but the name of a Local spec is mapped to the
\* handler of the last Local spec of that name (its own when no later
\* Local spec has its name).
C18_EachNameToLastHandler ==
    OnlySpecs(decl) =>
        /\ Len(tools) = Len(decl)
        /\ DOMAIN tool_map = LocalNames(decl)
        /\ \A i \in Locals(decl) :
              /\ tools[i] = LocalEntry(decl[i])
              /\ tool_map[decl[i].name] = decl[LastLocal(decl, decl[i].name)]
        /\ \A i \in Remotes(decl) : tools[i] = decl[i]

C18_Witness ==
    /\ decl = <<WeatherTool, McpTool, WeatherFixed>>
    /\ tools = <<LocalEntry(WeatherTool), McpTool, LocalEntry(WeatherFixed)>>
    /\ tool_map["Weather"] = WeatherFixed
    /\ pc[1] = "call"
    /\ req[1].tools = Some(tools)

\* the manifest advertises a function of this name
Advertised(n) == \E j \in 1..Len(tools) : tools[j].type = "function" /\ tools[j].name = n

\* the function calls of a turn result that name a Local spec
NamingLocal(output) ==
    SelectSeq(output, LAMBDA it : it.type = "function_call" /\ it.name \in LocalNames(decl))

\* C19 as stated: every manifest entry of type function has a handler under
\* its name in the dispatch table, and so has every function call of a turn
\* result that names an advertised function.
C19_NoDrift ==
    /\ \A j \in 1..Len(tools) : tools[j].type = "function" => tools[j].name \in DOMAIN tool_map
    /\ \A p \in Procs : \A k \in 1..Len(res[p].output) :
          res[p].output[k].type = "function_call" /\ Advertised(res[p].output[k].name)
              => res[p].output[k].name \in DOMAIN tool_map

\* C19 as amended: every manifest entry of type function that registration
\* built from a Local spec has a handler under its name, so a function call
\* naming a Local spec always finds a handler and is dispatched; a manifest
\* entry of type function without a handler is a dict of the tool list,
\* advertised as given, and a function call naming it is skipped.
C19_NoDriftForLocals ==
    /\ \A i \in Locals(decl) :
          /\ \E j \in 1..Len(tools) : tools[j] = LocalEntry(decl[i])
          /\ decl[i].name \in DOMAIN tool_map
    /\ \A j \in 1..Len(tools) :
          tools[j].type = "function" /\ tools[j].name \notin DOMAIN tool_map
              => \E i \in Remotes(decl) : decl[i] = tools[j]
    /\ \A p \in Procs :
          /\ FollowUp(p) =>
                invoked[p] = [k \in 1..Len(NamingLocal(res[p].output)) |-> NamingLocal(res[p].output)[k].call_id]
          /\ pc[p] = "returned" /\ replies[p] <= 10 => NamingLocal(res[p].output) = <<>>

C19_Witness ==
    /\ Advertised("Lookup")
    /\ "Lookup" \notin DOMAIN tool_map
    /\ FollowUp(1)
    /\ res[1].output = <<FunctionCall("Lookup", ArgParis, "c7"), FunctionCall("Weather", ArgAtlantis, "c4")>>
    /\ invoked[1] = <<"c4">>

\* the body of the try statement, for a given class
RunWith(fn, call, sid) ==
    LET obj == IF HasArguments(call)
               THEN LET data == JsonLoads(call.arguments)
                    IN IF data.ok THEN ModelValidate(fn, data.val) ELSE data
               ELSE ModelValidate(fn, EmptyObj)
    IN IF obj.ok THEN Process(obj.val, sid) ELSE obj

\* C20: the dispatch table maps a name to the last Local spec registered
\* under it, and the output sent for a function call is the one the handler
\* of that last spec gives, never that of an earlier spec of the name.
C20_LaterOverwrites ==
    /\ \A n \in DOMAIN tool_map : tool_map[n] = decl[LastLocal(decl, n)]
    /\ \A p \in Procs :
          FollowUp(p) =>
              LET d == NamingLocal(res[p].output)
              IN \A i \in 1..Len(d) :
                     LET run == RunWith(decl[LastLocal(decl, d[i].name)], d[i], session_id[p])
                     IN /\ Len(req[p].input) = Len(d)
                        /\ req[p].input[i].call_id = d[i].call_id
                        /\ req[p].input[i].output = IF run.ok THEN run.val ELSE "Oshibka: " \o run.err

C20_Witness ==
    /\ decl = <<WeatherTool, McpTool, WeatherFixed>>
    /\ FollowUp(1)
    /\ res[1].output = <<FunctionCall("Weather", ArgAtlantis, "c4")>>
    /\ ~RunWith(WeatherTool, res[1].output[1], session_id[1]).ok
    /\ req[1].input[1].output = "sunny"

\* C21: the local calls of one turn result are dispatched one at a time in
\* the order listed: the events of the iteration are, for each dispatchable
\* call in turn, its handler invoked and then that same handler returned or
\* failed, and only after the last of them the Model Service call, whose
\* input has one output per handler run.
C21_OneAtATimeInOrder ==
    \A p \in Procs :
        FollowUp(p) /\ Dispatchable(res[p].output) # <<>> =>
            LET d == Dispatchable(res[p].output)
                n == Len(d)
            IN /\ Len(events[p]) = 2 * n + 1
               /\ \A i \in 1..n :
                     /\ events[p][2 * i - 1].ev = "invoke"
                     /\ events[p][2 * i - 1].call_id = d[i].call_id
                     /\ events[p][2 * i].ev \in {"returned", "failed"}
                     /\ events[p][2 * i].call_id = d[i].call_id
               /\ events[p][2 * n + 1].ev = "create"
               /\ Len(req[p].input) = n

C21_Witness ==
    \E p \in Procs :
        /\ FollowUp(p)
        /\ res[p].output = <<FunctionCall("Weather", ArgAtlantis, "c4"), FunctionCall("Ping", ArgEmpty, "c5")>>
        /\ Len(events[p]) = 5
        /\ events[p][2].ev = "failed" /\ events[p][2].call_id = "c4"
        /\ events[p][3].ev = "invoke" /\ events[p][3].call_id = "c5"

\* C22: a tool-output follow-up has exactly one entry per function call
\* whose name is in the dispatch table, in order and under its call_id,
\* and none for the other function calls; a turn result whose function
\* calls are all outside the dispatch table gets no tool-output follow-up:
\* its approval requests, if any, are approved, and else it ends the Send.
C22_OutputsForDispatchableOnly ==
    \A p \in Procs :
        LET out == res[p].output
            d == Dispatchable(out)
        IN /\ FollowUp(p) /\ d # <<>> =>
                 req[p].input = [i \in 1..Len(d) |->
                                    [type |-> "function_call_output",
                                     call_id |-> d[i].call_id,
                                     output |-> req[p].input[i].output]]
           /\ FollowUp(p) /\ d = <<>> =>
                 /\ Approvals(out) # <<>>
                 /\ req[p].input = ExpectedApprovals(out)
                 /\ invoked[p] = <<>>
           /\ pc[p] = "returned" /\ replies[p] <= 10 => d = <<>> /\ Approvals(out) = <<>>

C22_Witness ==
    \E p \in Procs :
        /\ FollowUp(p)
        /\ res[p].output = <<FunctionCall("Ghost", ArgParis, "c6"), FunctionCall("Weather", ArgParis, "c1")>>
        /\ Len(req[p].input) = 1
        /\ req[p].input[1].call_id = "c1"

\* C23: a dispatchable function call whose arguments are absent or empty
\* is run by constructing the tool with no arguments and without parsing
\* JSON: its output is what the handler of a no-argument instance returns
\* when the tool has no required parameter, and else the error text of the
\* failed construction; in both cases the Send goes on to the follow-up.
C23_NoArgumentsNoParsing ==
    \A p \in Procs :
        FollowUp(p) /\ Dispatchable(res[p].output) # <<>> =>
            LET d == Dispatchable(res[p].output)
            IN \A i \in 1..Len(d) :
                 d[i].arguments \in {"", None} =>
                   LET fn == tool_map[d[i].name]
                       made == Process([impl |-> fn.impl, data |-> EmptyObj], session_id[p])
                   IN /\ events[p][2 * i - 1] = [ev |-> "invoke", call_id |-> d[i].call_id, parsed |-> FALSE]
                      /\ req[p].input[i].call_id = d[i].call_id
                      /\ IF fn.required = {}
                         THEN /\ events[p][2 * i].ev = (IF made.ok THEN "returned" ELSE "failed")
                              /\ req[p].input[i].output = (IF made.ok THEN made.val ELSE "Oshibka: " \o made.err)
                         ELSE /\ events[p][2 * i].ev = "failed"
                              /\ req[p].input[i].output = "Oshibka: 1 validation error for " \o fn.name

C23_Witness ==
    \E p \in Procs :
        /\ FollowUp(p)
        /\ res[p].output = <<FunctionCall("Weather", None, "c8"), FunctionCall("Ping", ArgEmpty, "c5")>>
        /\ {"Weather", "Ping"} \subseteq DOMAIN tool_map
        /\ tool_map["Weather"].required # {}
        /\ req[p].input[1].output = "Oshibka: 1 validation error for Weather"
        /\ req[p].input[2].output = "pong"

\* the entries of a history written by the assistant
AssistantEntries(h) == SelectSeq(h, LAMBDA e : e.role = "assistant")

\* user, assistant, user, assistant, ...
Alternates(h) ==
    \A i \in 1..Len(h) : h[i].role = (IF i % 2 = 1 THEN "user" ELSE "assistant")

\* C26: when no Send is in flight, every stored history has even length
\* and alternates user, assistant, starting with a user entry.
C26_HistoriesAlternate ==
    pc[1] = "idle" =>
        \A id \in DOMAIN user_sessions :
            Len(History(id)) % 2 = 0 /\ Alternates(History(id))

\* C27: a Send that fails with a Model Service error, on the first call or
\* on a follow-up, leaves the stored continuation reference of its session
\* as it was, appends no assistant entry, and creates no session entry for
\* an id that had none.
C27_FailureKeepsRefAndAssistant ==
    \A p \in Procs :
        pc[p] = "raised" =>
            LET now == Stored(session_id[p])
            IN /\ now.present = pre[p].present
               /\ now.last_reply_id = pre[p].last_reply_id
               /\ AssistantEntries(now.history) = AssistantEntries(pre[p].history)

C27_Witness ==
    \E p \in Procs :
        /\ pc[p] = "raised"
        /\ calls[p] = 3
        /\ pre[p].present
        /\ pre[p].last_reply_id # None
        /\ Len(History(session_id[p])) = Len(pre[p].history) + 1

\* C28: with a non-empty manifest, the first request of a Send carries the
\* configured tool-choice policy and the instructions; no follow-up request
\* carries either, and every follow-up request carries the manifest.
C28_PolicyOnFirstRequestOnly ==
    \A p \in Procs :
        tools # <<>> /\ pc[p] = "call" =>
            IF calls[p] = 1
            THEN /\ req[p].tool_choice = tool_choice
                 /\ req[p].instructions = Instruction
                 /\ req[p].tools = Some(tools)
            ELSE /\ req[p].tool_choice = Omitted
                 /\ req[p].instructions = Omitted
                 /\ req[p].tools = Some(tools)

C28_Witness ==
    \E p \in Procs :
        /\ FollowUp(p)
        /\ tools # <<>>
        /\ Approvals(res[p].output) # <<>>
        /\ req[p].input = ExpectedApprovals(res[p].output)
        /\ req[p].instructions = Omitted

\* C24: given that every Model Service call and every handler returns or
\* fails in finite time, every Send returns or fails in the end, whatever
\* the turn results are.
C24_SendTerminates ==
    \A p \in Procs : (pc[p] \in {"call", "wait"}) ~> (pc[p] \in {"returned", "raised"})

C24_Witness ==
    \E p \in Procs :
        /\ pc[p] = "returned"
        /\ replies[p] = 11
        /\ streak[p] = 11
        /\ calls[p] = 11

\* C25: a step of History or Reset (the steps that are not steps of a Send)
\* adds no entry to the session store, removes at most the one entry Reset
\* is called on, and leaves every other stored session as it was; an entry
\* for an absent id appears only in the step in which a Send on that id
\* completes.
C25_LazyCreationBySendOnly ==
    [][ /\ \A id \in SessionIds :
              id \notin DOMAIN user_sessions /\ id \in DOMAIN user_sessions' =>
                  \E p \in Procs : /\ pc[p] = "wait" /\ pc'[p] = "returned"
                                   /\ session_id[p] = id
        /\ pc' = pc =>
              /\ DOMAIN user_sessions' \subseteq DOMAIN user_sessions
              /\ Cardinality(DOMAIN user_sessions \ DOMAIN user_sessions') <= 1
              /\ \A id \in SessionIds :
                    id \in DOMAIN user_sessions' => Stored(id)' = Stored(id)
        /\ hist' # hist => user_sessions' = user_sessions /\ heap' = heap
      ]_vars

C25_Witness ==
    /\ pc[1] = "wait"
    /\ session_id[1] = "u2"
    /\ DOMAIN user_sessions = {}
    /\ DefaultSession \in wiped
    /\ Len(hist) = 2

\* C29: when Reset(id) has run while a Send on the existing session id was
\* in flight, the step that completes the Send stores the session again:
\* its history is the history from before the Send (and so from before the
\* Reset) followed by the new user and assistant entries, and its reference
\* is that of the returned turn.
C29_CommitUndoesReset ==
    [][ \A p \in Procs : \A id \in SessionIds :
          /\ pc[p] = "wait" /\ pc'[p] = "returned"
          /\ session_id[p] = id
          /\ id \in wiped
          /\ pre[p].present
          => /\ id \notin DOMAIN user_sessions
             /\ Stored(id)' = [present |-> TRUE,
                               last_reply_id |-> ret'[p].id,
                               history |-> pre[p].history \o
                                   <<[role |-> "user", content |-> msg[p]],
                                     [role |-> "assistant", content |-> ret'[p].output_text]>>]
      ]_vars

C29_Witness ==
    \E p \in Procs :
        /\ pc[p] = "returned"
        /\ session_id[p] \in wiped
        /\ pre[p].present
        /\ Len(History(session_id[p])) = Len(pre[p].history) + 2
        /\ Len(pre[p].history) >= 2

\* C30: delete_note with a positive note_id that is not in the store raises
\* no error, returns deleted = False and leaves the store as it is; with a
\* stored id it removes that note and no other and returns deleted = True;
\* so a delete of the id just deleted returns False.
C30_DeleteMissingIsNoError ==
    [][ nres'.op = "delete_note" /\ nres'.note_id > 0 =>
          LET note_id == nres'.note_id
          IN /\ ~nres'.raised
             /\ nres'.deleted = (note_id \in DOMAIN NOTES_BY_ID)
             /\ note_id \notin DOMAIN NOTES_BY_ID => NOTES_BY_ID' = NOTES_BY_ID
             /\ note_id \in DOMAIN NOTES_BY_ID =>
                   /\ DOMAIN NOTES_BY_ID' = DOMAIN NOTES_BY_ID \ {note_id}
                   /\ \A i \in DOMAIN NOTES_BY_ID' : NOTES_BY_ID'[i] = NOTES_BY_ID[i]
             /\ NEXT_ID' = NEXT_ID
             /\ nres.op = "delete_note" /\ nres.note_id = note_id /\ nres.deleted
                   => ~nres'.deleted
      ]_vars

C30_Witness ==
    /\ nres.op = "delete_note"
    /\ nres.note_id = 1
    /\ ~nres.raised
    /\ ~nres.deleted
    /\ NEXT_ID = 3
    /\ DOMAIN NOTES_BY_ID = {2}

\* C31: every stored note's id is its key in the store; a successful
\* add_note assigns the next id, which is greater than every key in the
\* store and than every id assigned before (all of which are below the
\* next id, which never decreases), so no id is used twice; an add_note
\* rejected for an empty title or body changes neither the store nor the
\* next id.
C31_IdsAreKeysAndNeverReused ==
    /\ [](/\ \A k \in DOMAIN NOTES_BY_ID : NOTES_BY_ID[k].id = k /\ k < NEXT_ID
          /\ (nres.op = "add_note" /\ ~nres.raised) => (nres.note.id < NEXT_ID))
    /\ [][
          /\ NEXT_ID' >= NEXT_ID
          /\ (nres'.op = "add_note" /\ ~nres'.raised) =>
                (/\ nres'.note.id = NEXT_ID
                 /\ NEXT_ID' = NEXT_ID + 1
                 /\ \A k \in DOMAIN NOTES_BY_ID : k < nres'.note.id
                 /\ DOMAIN NOTES_BY_ID' = DOMAIN NOTES_BY_ID \cup {NEXT_ID}
                 /\ NOTES_BY_ID'[NEXT_ID] = nres'.note
                 /\ \A k \in DOMAIN NOTES_BY_ID : NOTES_BY_ID'[k] = NOTES_BY_ID[k])
          /\ (nres'.op = "add_note" /\ nres'.raised) =>
                (NOTES_BY_ID' = NOTES_BY_ID /\ NEXT_ID' = NEXT_ID)
       ]_vars

C31_Witness ==
    /\ nres.op = "add_note"
    /\ ~nres.raised
    /\ nres.note.id = 2
    /\ DOMAIN NOTES_BY_ID = {2}
    /\ NOTES_BY_ID[2].notebook = Scrapbook
    /\ NEXT_ID = 3

\* the latest SESSION.get call gave a transport error or a retryable status
SeenRetryable(reply) ==
    \/ reply.kind = "error"
    \/ reply.kind = "response" /\ reply.status_code \in {429, 500, 502, 503, 504}

\* C32: _get makes at most max_retries HTTP attempts and always ends by
\* returning the parsed body or raising.  An attempt is followed by a
\* retry only if it gave a transport error or a retryable status and
\* attempts remain; a non-retryable status >= 400 raises on the attempt
\* it is seen; a retryable status or a transport error on the last
\* attempt raises; and after the return or the raise no attempt is made.
C32_BoundedRetries ==
    /\ [](/\ http_calls <= max_retries
          /\ get_pc = "sleep" => (attempt < max_retries /\ SeenRetryable(seen))
          /\ get_pc = "returned" =>
                (seen.kind = "response" /\ seen.status_code < 400 /\ seen.json)
          /\ get_pc \in {"get", "sleep"} => outcome = NoOutcome)
    /\ [][
          /\ http_calls' = http_calls + 1 =>
                (/\ get_pc = "get" /\ http_calls = attempt - 1
                 /\ get_pc' \in {"sleep", "returned", "raised"}
                 /\ get_pc' = "sleep" => (SeenRetryable(seen') /\ attempt < max_retries)
                 /\ (seen'.kind = "response" /\ seen'.status_code >= 400
                        /\ seen'.status_code \notin {429, 500, 502, 503, 504})
                       => (get_pc' = "raised" /\ outcome'.kind = "RuntimeError")
                 /\ (SeenRetryable(seen') /\ attempt = max_retries)
                       => (get_pc' = "raised" /\ outcome'.kind = "RuntimeError"))
          /\ get_pc \in {"returned", "raised"} =>
                (get_pc' = get_pc /\ http_calls' = http_calls)
       ]_vars
    /\ (get_pc \in {"get", "sleep"}) ~> (get_pc \in {"returned", "raised"})

C32_Witness ==
    /\ get_pc = "raised"
    /\ max_retries = 3
    /\ http_calls = 3
    /\ last_error = "RequestException"
    /\ seen.kind = "response"
    /\ seen.status_code = 503
    /\ outcome = [kind |-> "RuntimeError", what |-> "request failed"]

====
